---- MODULE Spec2Model ----
(***************************************************************************)
(* A model of sql_runner.py: SQLQueryRunner.get_sql_files,                 *)
(* read_query_from_file, execute_query and run_all_queries, and the exit   *)
(* status main() leaves behind.                                            *)
(*                                                                         *)
(* Strings are sequences of one-character strings.  The file system and    *)
(* the MySQL client are the environment: every call into them either       *)
(* returns or raises, chosen nondeterministically at the call.             *)
(***************************************************************************)
EXTENDS Integers, Sequences, FiniteSets, TLC

\* ------------------------------------------------------------------ bounds
\* Longest directory listing os.listdir returns.
MaxEntries == 3
\* Most rows a SELECT returns to cursor.fetchall().
MaxRows == 2
\* Longest text the statement splitter is applied to in SpecSplit.
MaxTextLen == 5

\* ----------------------------------------------------------------- strings
\* Code point of a character (Python compares str by code point).
Ord(c) ==
    CASE c = "\n" -> 10 [] c = " " -> 32 [] c = "." -> 46 [] c = "/" -> 47
      [] c = "1" -> 49 [] c = ";" -> 59
      [] c = "B" -> 66 [] c = "C" -> 67 [] c = "E" -> 69 [] c = "L" -> 76 [] c = "Q" -> 81
      [] c = "S" -> 83 [] c = "T" -> 84
      [] c = "a" -> 97 [] c = "b" -> 98 [] c = "c" -> 99 [] c = "d" -> 100
      [] c = "e" -> 101 [] c = "i" -> 105 [] c = "l" -> 108 [] c = "q" -> 113
      [] c = "s" -> 115 [] c = "t" -> 116 [] c = "x" -> 120

\* str.__lt__: lexicographic comparison by code point; a proper prefix is less.
StrLess(a, b) ==
    \E n \in 1..(Len(b)) :
        /\ \A m \in 1..(n - 1) : m <= Len(a) /\ a[m] = b[m]
        /\ \/ n = Len(a) + 1
           \/ n <= Len(a) /\ Ord(a[n]) < Ord(b[n])

\* str.endswith(suffix)
EndsWith(s, suffix) ==
    /\ Len(suffix) <= Len(s)
    /\ SubSeq(s, Len(s) - Len(suffix) + 1, Len(s)) = suffix

\* str.startswith(prefix)
StartsWith(s, prefix) ==
    /\ Len(prefix) <= Len(s)
    /\ SubSeq(s, 1, Len(prefix)) = prefix

\* str.lower() on one character
LowerChar(c) ==
    CASE c = "B" -> "b" [] c = "C" -> "c" [] c = "E" -> "e" [] c = "L" -> "l" [] c = "Q" -> "q"
      [] c = "S" -> "s" [] c = "T" -> "t" [] OTHER -> c

\* str.lower()
Lower(s) == [n \in 1..Len(s) |-> LowerChar(s[n])]

\* The characters str.strip() removes (whitespace).
IsSpace(c) == c \in {" ", "\n", "\t"}

\* str.strip(): drop leading and trailing whitespace.
RECURSIVE LStrip(_)
LStrip(s) == IF s # << >> /\ IsSpace(Head(s)) THEN LStrip(Tail(s)) ELSE s

RECURSIVE RStrip(_)
RStrip(s) ==
    IF s # << >> /\ IsSpace(s[Len(s)]) THEN RStrip(SubSeq(s, 1, Len(s) - 1)) ELSE s

Strip(s) == RStrip(LStrip(s))

\* str.split(';'): the fragments between separators, one more than there are
\* separators; cur is the fragment being read, acc the fragments closed so far.
RECURSIVE SplitFrom(_, _, _)
SplitFrom(s, cur, acc) ==
    IF s = << >> THEN Append(acc, cur)
    ELSE IF Head(s) = ";" THEN SplitFrom(Tail(s), << >>, Append(acc, cur))
    ELSE SplitFrom(Tail(s), Append(cur, Head(s)), acc)

Split(s) == SplitFrom(s, << >>, << >>)

\* [stmt.strip() for stmt in statements if stmt.strip()]
RECURSIVE StripNonEmpty(_)
StripNonEmpty(frags) ==
    IF frags = << >> THEN << >>
    ELSE IF Strip(Head(frags)) # << >>
         THEN <<Strip(Head(frags))>> \o StripNonEmpty(Tail(frags))
         ELSE StripNonEmpty(Tail(frags))

\* SplitStatements without the filter of line 51: empty fragments are kept.
SplitStatements_KeepEmpty(query) ==
    [n \in 1..Len(Split(query)) |-> Strip(Split(query)[n])]

\* The statements execute_query runs for a file's text.
SplitStatements(query) == StripNonEmpty(Split(query))

SelectKeyword == <<"s", "e", "l", "e", "c", "t">>

\* IsSelect without lower(): 'SELECT' and 'Select' are not recognised.
IsSelect_CaseSensitive(statement) == StartsWith(Strip(statement), SelectKeyword)

\* statement.lower().strip().startswith('select')
IsSelect(statement) == StartsWith(Strip(Lower(statement)), SelectKeyword)

\* ------------------------------------------------------------ file system
SqlSuffix == <<".", "s", "q", "l">>

\* The directory main() passes to run_all_queries.
Directory == <<"q">>

\* os.path.join(directory, file)
Join(dir, file) == dir \o <<"/">> \o file

\* os.path.basename(path): what follows the last '/'.
RECURSIVE Basename(_)
Basename(path) ==
    IF \E n \in 1..Len(path) : path[n] = "/" THEN Basename(Tail(path)) ELSE path

\* Insert with the comparison turned round: the list comes out descending.
RECURSIVE Insert_Descending(_, _)
Insert_Descending(x, sorted) ==
    IF sorted = << >> THEN <<x>>
    ELSE IF StrLess(Head(sorted), x) THEN <<x>> \o sorted
    ELSE <<Head(sorted)>> \o Insert_Descending(x, Tail(sorted))

\* sorted(): insertion of x into an ascending list.
RECURSIVE Insert(_, _)
Insert(x, sorted) ==
    IF sorted = << >> THEN <<x>>
    ELSE IF StrLess(x, Head(sorted)) THEN <<x>> \o sorted
    ELSE <<Head(sorted)>> \o Insert(x, Tail(sorted))

RECURSIVE Sorted(_)
Sorted(list) == IF list = << >> THEN << >> ELSE Insert(Head(list), Sorted(Tail(list)))

\* The loop of get_sql_files: keep the entries ending in '.sql', joined to the
\* directory, in listing order.
RECURSIVE Matching(_, _)
Matching(dir, listing) ==
    IF listing = << >> THEN << >>
    ELSE IF EndsWith(Head(listing), SqlSuffix)
         THEN <<Join(dir, Head(listing))>> \o Matching(dir, Tail(listing))
         ELSE Matching(dir, Tail(listing))

\* get_sql_files without sorted(): the files in listing order.
get_sql_files_Unsorted(dir, listing) == Matching(dir, listing)

get_sql_files(dir, listing) == Sorted(Matching(dir, listing))

\* ------------------------------------------------------------ environment
\* The names a directory entry may have.
EntryNames ==
    { <<"a", ".", "s", "q", "l">>,
      <<"B", ".", "s", "q", "l">>,
      <<"d", ".", "S", "Q", "L">>,
      <<"e", ".", "t", "x", "t">>,
      <<".", "s", "q", "l">> }

\* What os.listdir may return: distinct names, in any order.
Listings ==
    { l \in UNION { [1..n -> EntryNames] : n \in 0..MaxEntries } :
        \A m, n \in 1..Len(l) : m # n => l[m] # l[n] }

\* The texts a .sql file may hold.
FileTexts ==
    { << >>,
      <<";", " ", ";">>,
      <<"i", ";">>,
      <<"x", "s", "e", "l", "e", "c", "t">>,
      <<" ", "S", "e", "l", "e", "c", "t", " ", "1", ";", "\n", "x", ";", " ">>,
      <<"i", ";", "S", "E", "L", "E", "C", "T">> }

\* The rows cursor.fetchall() may return.
RowLists == { [n \in 1..m |-> n] : m \in 0..MaxRows }

\* ------------------------------------------------------------------ state
VARIABLES
    pc,          \* where the process is
    listing,     \* get_sql_files: what os.listdir returned
    sql_files,   \* run_all_queries: the sorted list being iterated
    idx,         \* run_all_queries: position of sql_file in sql_files
    query,       \* the text read from the current file
    statements,  \* execute_query: the statements of the current file
    k,           \* execute_query: position of statement in statements
    conns,       \* the connections open, each named by the file it serves
    cursors,     \* the cursors open, likewise
    success,     \* what execute_query returned for the current file
    exitStatus,  \* the process exit status, once the process has ended
    unhandled,   \* an exception left run_all_queries uncaught
    effects      \* every file read, client call and log record so far, in order

vars ==
    <<pc, listing, sql_files, idx, query, statements, k, conns, cursors,
      success, exitStatus, unhandled, effects>>

\* The value of exitStatus while the process runs (no exit status yet).
Running == -1

\* The values of success: unbound before the first execute_query returns, then
\* the boolean it returned.
NoResult == "unbound"
PyTrue == "True"
PyFalse == "False"

\* One observable effect.  A log record carries its level, message and the
\* file, statement or number formatted into it; a call into the file system or
\* the database client carries the file it serves, the text or statement passed
\* or returned, the number of rows returned, and whether it returned (ok) or
\* raised.
Effect(op, level, file, stmt, row, ok) ==
    [op |-> op, level |-> level, file |-> file, stmt |-> stmt, row |-> row, ok |-> ok]

\* logger.<level>(message)
LogRecord(level, msg, file, row) == Effect(msg, level, file, << >>, row, TRUE)

\* A call that returned, and one that raised.
Returned(op, file, stmt) == Effect(op, "call", file, stmt, 0, TRUE)
ReturnedRows(op, file, stmt, rows) == Effect(op, "call", file, stmt, Len(rows), TRUE)
Raised(op, file, stmt) == Effect(op, "call", file, stmt, 0, FALSE)

sql_file == sql_files[idx]
file_name == Basename(sql_file)
statement == statements[k]

Init ==
    /\ pc = "start"
    /\ listing = << >>
    /\ sql_files = << >>
    /\ idx = 0
    /\ query = << >>
    /\ statements = << >>
    /\ k = 0
    /\ conns = {}
    /\ cursors = {}
    /\ success = NoResult
    /\ exitStatus = Running
    /\ unhandled = FALSE
    /\ effects = << >>

\* sys.exit(status), or the interpreter ending
Exit(status) ==
    /\ pc' = "exited"
    /\ exitStatus' = status

\* The for loop of run_all_queries moves to the next file; after the last one
\* run_all_queries and main return and the process ends with status 0.
NextFile ==
    IF idx < Len(sql_files)
    THEN /\ idx' = idx + 1
         /\ pc' = "read"
         /\ UNCHANGED exitStatus
    ELSE /\ Exit(0)
         /\ UNCHANGED idx

\* run_all_queries up to the loop: discover the files; with none, warn and return.
\* os.listdir may raise, and nothing catches it.
Discover ==
    /\ pc = "start"
    /\ \/ \E l \in Listings :
            /\ sql_files' = get_sql_files(Directory, l)
            /\ IF sql_files' = << >>
               THEN /\ effects' = effects \o
                        << Returned("listdir", Directory, << >>),
                           LogRecord("WARNING", "No SQL files found", Directory, 0) >>
                    /\ Exit(0)
                    /\ UNCHANGED idx
               ELSE /\ effects' = effects \o
                        << Returned("listdir", Directory, << >>),
                           LogRecord("INFO", "Found SQL files to execute", << >>,
                                     Len(sql_files')) >>
                    /\ idx' = 1
                    /\ pc' = "read"
                    /\ UNCHANGED exitStatus
            /\ UNCHANGED unhandled
       \/ /\ effects' = Append(effects, Raised("listdir", Directory, << >>))
          /\ unhandled' = TRUE
          /\ Exit(1)
          /\ UNCHANGED <<sql_files, idx>>
    /\ UNCHANGED <<listing, query, statements, k, conns, cursors, success>>

\* ReadFile without the handler of line 89: a read that raises is logged by
\* read_query_from_file, re-raised, and leaves run_all_queries uncaught.
ReadFile_Uncaught ==
    /\ pc = "read"
    /\ \/ \E text \in FileTexts :
            /\ query' = text
            /\ effects' = Append(effects, Returned("read", sql_file, text))
            /\ pc' = "connect"
            /\ UNCHANGED <<exitStatus, unhandled>>
       \/ /\ effects' = effects \o
              << Raised("read", sql_file, << >>),
                 LogRecord("ERROR", "Error reading file", sql_file, 0) >>
          /\ unhandled' = TRUE
          /\ Exit(1)
          /\ UNCHANGED query
    /\ UNCHANGED <<listing, sql_files, idx, statements, k, conns, cursors, success>>

\* read_query_from_file(sql_file); a read that raises is logged, re-raised,
\* caught by run_all_queries, logged again, and ends the process.
ReadFile ==
    /\ pc = "read"
    /\ \/ \E text \in FileTexts :
            /\ query' = text
            /\ effects' = Append(effects, Returned("read", sql_file, text))
            /\ pc' = "connect"
            /\ UNCHANGED exitStatus
       \/ /\ effects' = effects \o
              << Raised("read", sql_file, << >>),
                 LogRecord("ERROR", "Error reading file", sql_file, 0),
                 LogRecord("ERROR", "Fatal error processing", sql_file, 0) >>
          /\ Exit(1)
          /\ UNCHANGED query
    /\ UNCHANGED <<listing, sql_files, idx, statements, k, conns, cursors, success,
                   unhandled>>

\* The with blocks of execute_query end: the cursor, then the connection, are
\* closed if they were opened.
CloseScoped ==
    /\ cursors' = cursors \ {sql_file}
    /\ conns' = conns \ {sql_file}

Closings ==
    (IF sql_file \in cursors THEN <<Returned("cursor.close", sql_file, << >>)>> ELSE << >>)
    \o (IF sql_file \in conns THEN <<Returned("close", sql_file, << >>)>> ELSE << >>)

\* ExecuteFailed without the with blocks: the error is logged and False
\* returned, and what was opened stays open.
ExecuteFailed_Leak(call) ==
    /\ effects' = effects \o <<call>>
                    \o <<LogRecord("ERROR", "Error executing query", file_name, 0)>>
    /\ UNCHANGED <<conns, cursors>>
    /\ success' = PyFalse
    /\ pc' = "returned"

\* ExecuteFailed with the handler returning True.
ExecuteFailed_ReturnsTrue(call) ==
    /\ effects' = effects \o <<call>> \o Closings
                    \o <<LogRecord("ERROR", "Error executing query", file_name, 0)>>
    /\ CloseScoped
    /\ success' = PyTrue
    /\ pc' = "returned"

\* A call inside execute_query's try raised: the with blocks are left, the
\* handler logs the error and execute_query returns False.
ExecuteFailed(call) ==
    /\ effects' = effects \o <<call>> \o Closings
                    \o <<LogRecord("ERROR", "Error executing query", file_name, 0)>>
    /\ CloseScoped
    /\ success' = PyFalse
    /\ pc' = "returned"

\* mysql.connector.connect(**self.connection_params)
Connect ==
    /\ pc = "connect"
    /\ \/ /\ conns' = conns \cup {sql_file}
          /\ effects' = Append(effects, Returned("connect", sql_file, << >>))
          /\ pc' = "cursor"
          /\ UNCHANGED <<cursors, success>>
       \/ ExecuteFailed(Raised("connect", sql_file, << >>))
    /\ UNCHANGED <<listing, sql_files, idx, query, statements, k, exitStatus, unhandled>>

\* AtStatement one short: the commit comes before the last statement.
AtStatement_Early(n, stmts) == IF n < Len(stmts) THEN "execute" ELSE "commit"

\* Where execute_query goes once the statements before position n are done.
AtStatement(n, stmts) == IF n <= Len(stmts) THEN "execute" ELSE "commit"

\* conn.cursor(), the first log record and the split of the text.
OpenCursor ==
    /\ pc = "cursor"
    /\ \/ /\ cursors' = cursors \cup {sql_file}
          /\ effects' = effects \o
                << Returned("cursor", sql_file, << >>),
                   LogRecord("INFO", "Executing query", file_name, 0) >>
          /\ statements' = SplitStatements(query)
          /\ k' = 1
          /\ pc' = AtStatement(1, statements')
          /\ UNCHANGED <<conns, success>>
       \/ /\ ExecuteFailed(Raised("cursor", sql_file, << >>))
          /\ UNCHANGED <<statements, k>>
    /\ UNCHANGED <<listing, sql_files, idx, query, exitStatus, unhandled>>

\* cursor.execute(statement)
Execute ==
    /\ pc = "execute"
    /\ \/ /\ effects' = Append(effects, Returned("execute", sql_file, statement))
          /\ IF IsSelect(statement)
             THEN pc' = "fetch" /\ UNCHANGED k
             ELSE k' = k + 1 /\ pc' = AtStatement(k + 1, statements)
          /\ UNCHANGED <<conns, cursors, success>>
       \/ /\ ExecuteFailed(Raised("execute", sql_file, statement))
          /\ UNCHANGED k
    /\ UNCHANGED <<listing, sql_files, idx, query, statements, exitStatus, unhandled>>

\* for row in results: self.logger.info(f"Result: {row}")
RowRecords(rows) == [n \in 1..Len(rows) |-> LogRecord("INFO", "Result", file_name, rows[n])]

\* cursor.fetchall() for a SELECT, and the log of its rows.
Fetch ==
    /\ pc = "fetch"
    /\ \/ \E rows \in RowLists :
            /\ effects' = effects \o <<ReturnedRows("fetchall", sql_file, statement, rows)>>
                            \o RowRecords(rows)
            /\ k' = k + 1
            /\ pc' = AtStatement(k + 1, statements)
            /\ UNCHANGED <<conns, cursors, success>>
       \/ /\ ExecuteFailed(Raised("fetchall", sql_file, statement))
          /\ UNCHANGED k
    /\ UNCHANGED <<listing, sql_files, idx, query, statements, exitStatus, unhandled>>

\* conn.commit(), the success record and return True (leaving the with blocks).
Commit ==
    /\ pc = "commit"
    /\ \/ /\ effects' = effects \o
                << Returned("commit", sql_file, << >>),
                   LogRecord("INFO", "Successfully executed query", file_name, 0) >>
                \o Closings
          /\ CloseScoped
          /\ success' = PyTrue
          /\ pc' = "returned"
       \/ ExecuteFailed(Raised("commit", sql_file, << >>))
    /\ UNCHANGED <<listing, sql_files, idx, query, statements, k, exitStatus, unhandled>>

\* CheckSuccess without the test of line 85: the loop goes on after a failure.
CheckSuccess_Continue ==
    /\ pc = "returned"
    /\ NextFile
    /\ UNCHANGED <<listing, sql_files, query, statements, k, conns, cursors,
                   success, unhandled, effects>>

\* CheckSuccess with a return in place of sys.exit(1): the failure is logged
\* and the process ends normally.
CheckSuccess_Return ==
    /\ pc = "returned"
    /\ IF success # PyTrue
       THEN /\ effects' = Append(effects,
                                 LogRecord("ERROR", "Stopping execution", sql_file, 0))
            /\ Exit(0)
            /\ UNCHANGED idx
       ELSE /\ NextFile
            /\ UNCHANGED effects
    /\ UNCHANGED <<listing, sql_files, query, statements, k, conns, cursors,
                   success, unhandled>>

\* run_all_queries after execute_query returned: a False result is logged and
\* ends the process with status 1 (SystemExit is no Exception: the handler of
\* line 89 does not catch it); a True result goes on with the loop.
CheckSuccess ==
    /\ pc = "returned"
    /\ IF success # PyTrue
       THEN /\ effects' = Append(effects,
                                 LogRecord("ERROR", "Stopping execution", sql_file, 0))
            /\ Exit(1)
            /\ UNCHANGED idx
       ELSE /\ NextFile
            /\ UNCHANGED effects
    /\ UNCHANGED <<listing, sql_files, query, statements, k, conns, cursors,
                   success, unhandled>>

Next ==
    \/ Discover
    \/ ReadFile
    \/ Connect
    \/ OpenCursor
    \/ Execute
    \/ Fetch
    \/ Commit
    \/ CheckSuccess

Spec == Init /\ [][Next]_vars

\* ------------------------------------------------- the splitter on its own
SplitAlphabet == {"a", "b", ";", " ", "\n"}

\* Every text over SplitAlphabet of at most MaxTextLen characters.
SplitTexts == UNION { [1..n -> SplitAlphabet] : n \in 0..MaxTextLen }

InitSplit ==
    /\ pc = "text"
    /\ query \in SplitTexts
    /\ listing = << >>
    /\ sql_files = << >>
    /\ idx = 0
    /\ statements = << >>
    /\ k = 0
    /\ conns = {}
    /\ cursors = {}
    /\ success = NoResult
    /\ exitStatus = Running
    /\ unhandled = FALSE
    /\ effects = << >>

\* Lines 50-51 of execute_query applied to query.
SplitText ==
    /\ pc = "text"
    /\ statements' = SplitStatements(query)
    /\ pc' = "split"
    /\ UNCHANGED <<listing, sql_files, idx, query, k, conns, cursors, success,
                   exitStatus, unhandled, effects>>

SpecSplit == InitSplit /\ [][SplitText]_vars

\* ---------------------------------------------------- discovery on its own
InitDiscover ==
    /\ pc = "listed"
    /\ listing \in Listings
    /\ sql_files = << >>
    /\ idx = 0
    /\ query = << >>
    /\ statements = << >>
    /\ k = 0
    /\ conns = {}
    /\ cursors = {}
    /\ success = NoResult
    /\ exitStatus = Running
    /\ unhandled = FALSE
    /\ effects = << >>

\* get_sql_files applied to what os.listdir returned.
GetSqlFiles ==
    /\ pc = "listed"
    /\ sql_files' = get_sql_files(Directory, listing)
    /\ pc' = "discovered"
    /\ UNCHANGED <<listing, idx, query, statements, k, conns, cursors, success,
                   exitStatus, unhandled, effects>>

SpecDiscover == InitDiscover /\ [][GetSqlFiles]_vars

\* ------------------------------------------------------------- properties
Range(seq) == { seq[n] : n \in 1..Len(seq) }

\* The positions of effects that are calls, and those that serve file f.
CallPos == { p \in 1..Len(effects) : effects[p].level = "call" }
FilePos(f) == { p \in CallPos : effects[p].op # "listdir" /\ effects[p].file = f }
OpPos(op) == { p \in CallPos : effects[p].op = op }

\* The calls that touch a file or its connection.
FileOps == {"read", "connect", "cursor", "execute", "fetchall", "commit"}
ExecuteOps == FileOps \ {"read"}

\* The positions where a read or a call of execute_query raised.
FailPos == { p \in CallPos : effects[p].op \in FileOps /\ ~effects[p].ok }

\* The position of path f in the sorted list.
FileIndex(f) == CHOOSE n \in 1..Len(sql_files) : sql_files[n] = f

\* C10: after get_sql_files, the list holds exactly the paths of the entries
\* whose name ends with the lowercase suffix '.sql' (so none ending in '.SQL'
\* or '.txt'), each once, in ascending order whatever the listing order; a
\* listing with no such entry gives the empty list.
C10_DiscoverySortedSqlOnly ==
    LET sqlNames ==
            { n \in Range(listing) :
                /\ Len(n) >= 4
                /\ n[Len(n) - 3] = "." /\ n[Len(n) - 2] = "s"
                /\ n[Len(n) - 1] = "q" /\ n[Len(n)] = "l" }
    IN  pc = "discovered" =>
          /\ Range(sql_files) = { Directory \o <<"/">> \o n : n \in sqlNames }
          /\ Len(sql_files) = Cardinality(sqlNames)
          /\ \A m, n \in 1..Len(sql_files) :
                m < n => StrLess(sql_files[m], sql_files[n])
          /\ sqlNames = {} => sql_files = << >>

\* C10 witness: a listing with '.sql' entries out of order beside a '.SQL'
\* entry has been discovered.
C10_Witness ==
    /\ pc = "discovered"
    /\ listing = << <<"a", ".", "s", "q", "l">>, <<"d", ".", "S", "Q", "L">>,
                    <<"B", ".", "s", "q", "l">> >>
    /\ sql_files = << <<"q", "/", "B", ".", "s", "q", "l">>,
                      <<"q", "/", "a", ".", "s", "q", "l">> >>

\* The spans <<first, last>> of query that are statements: no ';' inside, no
\* whitespace at either end, and only whitespace between the span and the
\* nearest ';' (or end of text) on each side.
StatementSpans ==
    LET n == Len(query)
        Plain(a, b) == \A m \in a..b : query[m] # ";"
        Blank(a, b) == \A m \in a..b : IsSpace(query[m])
    IN  { sp \in (1..n) \X (1..n) :
            /\ sp[1] <= sp[2]
            /\ Plain(sp[1], sp[2])
            /\ ~IsSpace(query[sp[1]]) /\ ~IsSpace(query[sp[2]])
            /\ \E a \in 0..(sp[1] - 1) :
                  (a = 0 \/ query[a] = ";") /\ Blank(a + 1, sp[1] - 1)
            /\ \E b \in (sp[2] + 1)..(n + 1) :
                  (b = n + 1 \/ query[b] = ";") /\ Blank(sp[2] + 1, b - 1) }

\* C9: the statements are exactly the trimmed non-empty fragments between
\* semicolons, in left-to-right order: none is empty, contains ';' or starts
\* or ends with whitespace, and a text of whitespace and semicolons only
\* gives none.
C9_SplitTrimDiscard ==
    pc = "split" =>
      /\ Len(statements) = Cardinality(StatementSpans)
      /\ \A sp \in StatementSpans :
            LET before == Cardinality({ o \in StatementSpans : o[1] < sp[1] })
            IN  statements[before + 1] = SubSeq(query, sp[1], sp[2])
      /\ \A m \in 1..Len(statements) :
            /\ statements[m] # << >>
            /\ \A j \in 1..Len(statements[m]) : statements[m][j] # ";"
            /\ ~IsSpace(statements[m][1])
            /\ ~IsSpace(statements[m][Len(statements[m])])
      /\ (\A j \in 1..Len(query) : IsSpace(query[j]) \/ query[j] = ";")
            => statements = << >>

\* C9 witness: a text with an empty fragment and padded fragments was split.
C9_Witness ==
    /\ pc = "split"
    /\ query = <<"b", ";", ";", " ", "a">>
    /\ statements = << <<"b">>, <<"a">> >>

\* C1: once a read or a call of execute_query has raised for the file at
\* position i, no file after i has been or is ever read, connected to or
\* executed, nothing more is read or executed at all, and the batch can only
\* be about to abort or have aborted with status 1.
C1_AbortOnFirstFailure ==
    \A p \in FailPos :
        LET i == FileIndex(effects[p].file)
        IN  /\ \A q \in CallPos :
                  effects[q].op \in FileOps => FileIndex(effects[q].file) <= i
            /\ \A q \in CallPos : q > p => effects[q].op \notin FileOps
            /\ idx = i
            /\ pc \in {"returned", "exited"}
            /\ pc = "returned" => success = PyFalse
            /\ pc = "exited" => exitStatus = 1

\* C1 witness: the second of three files failed in execution and the process
\* has exited.
C1_Witness ==
    /\ Len(sql_files) = 3
    /\ pc = "exited"
    /\ \E p \in FailPos :
          effects[p].op = "execute" /\ effects[p].file = sql_files[2]

\* What the batch went through, read off the effects.
ListingFailed == \E p \in OpPos("listdir") : ~effects[p].ok
NoFilesFound == (\E p \in OpPos("listdir") : effects[p].ok) /\ sql_files = << >>
ReadFailed == \E p \in OpPos("read") : ~effects[p].ok
ExecuteReturnedFalse ==
    \E p \in 1..Len(effects) :
        effects[p].level = "ERROR" /\ effects[p].op = "Error executing query"
AllSucceeded ==
    /\ sql_files # << >>
    /\ FailPos = {}
    /\ \A n \in 1..Len(sql_files) :
          /\ \E p \in OpPos("read") : effects[p].file = sql_files[n]
          /\ \E p \in OpPos("commit") : effects[p].file = sql_files[n]

\* C2 as stated: status 0 exactly on no files or full success, status 1
\* exactly on a failed read or a false execute_query.
C2_Original ==
    pc = "exited" =>
      /\ exitStatus \in {0, 1}
      /\ exitStatus = 0 <=> (NoFilesFound \/ AllSucceeded)
      /\ exitStatus = 1 <=> (ReadFailed \/ ExecuteReturnedFalse)

\* C2 amended: status 0 exactly on no files or full success, status 1 exactly
\* on a failed read, a false execute_query, or a directory listing that raised;
\* no status before the process ends.
C2_ExitStatus ==
    /\ pc # "exited" => exitStatus = Running
    /\ pc = "exited" =>
         /\ exitStatus \in {0, 1}
         /\ exitStatus = 0 <=> (NoFilesFound \/ AllSucceeded)
         /\ exitStatus = 1 <=> (ReadFailed \/ ExecuteReturnedFalse \/ ListingFailed)

\* C2 witness: the process ended with status 1 after a commit raised in the
\* second file.
C2_Witness ==
    /\ pc = "exited"
    /\ exitStatus = 1
    /\ Len(sql_files) = 2
    /\ \E p \in FailPos : effects[p].op = "commit" /\ effects[p].file = sql_files[2]

\* C3: the n-th file read is the n-th file of the ascending list (so the
\* files read are a prefix of it: none skipped, none read twice), every call
\* serves the file read last, and no file is connected to twice.
C3_PrefixOfSortedList ==
    LET reads == OpPos("read")
    IN  /\ \A m, n \in 1..Len(sql_files) :
              m < n => StrLess(sql_files[m], sql_files[n])
        /\ Cardinality(reads) <= Len(sql_files)
        /\ Cardinality(reads) = (IF pc = "read" THEN idx - 1 ELSE idx)
        /\ \A p \in CallPos :
              effects[p].op \in FileOps =>
                 effects[p].file = sql_files[Cardinality({ q \in reads : q <= p })]
        /\ \A p, q \in OpPos("connect") :
              p # q => effects[p].file # effects[q].file

\* C3 witness: three files have been read, the first two executed.
C3_Witness ==
    /\ Len(sql_files) = 3
    /\ Cardinality(OpPos("read")) = 3
    /\ Cardinality(OpPos("commit")) = 2

\* C4: at most one connection is open, only inside execute_query and for the
\* current file, with its cursor; every connection opened earlier was closed
\* before anything else was read or opened; a batch without files connects
\* to nothing.
C4_OneScopedConnection ==
    /\ Cardinality(conns) <= 1
    /\ cursors \subseteq conns
    /\ conns # {} => conns = {sql_file} /\ pc \in {"cursor", "execute", "fetch", "commit"}
    /\ pc \in {"start", "read", "connect", "returned", "exited"} => conns = {}
    /\ \A p \in OpPos("connect") :
          effects[p].ok =>
             \/ effects[p].file \in conns
                  /\ \A q \in CallPos : q > p => effects[q].op \notin {"read", "connect"}
             \/ \E c \in OpPos("close") :
                  /\ c > p
                  /\ effects[c].file = effects[p].file
                  /\ \A q \in CallPos :
                        (p < q /\ q < c) => effects[q].op \notin {"read", "connect"}
    /\ sql_files = << >> => OpPos("connect") = {}

\* C4 witness: a statement of the second file raised, and the process has
\* exited with every connection closed.
C4_Witness ==
    /\ pc = "exited"
    /\ conns = {}
    /\ Cardinality(OpPos("close")) = 2
    /\ \E p \in FailPos : effects[p].op = "execute"

\* The statements passed to the calls op that returned, in order.
RECURSIVE StatementsOf(_, _, _)
StatementsOf(effs, op, f) ==
    IF effs = << >> THEN << >>
    ELSE IF Head(effs).level = "call" /\ Head(effs).op = op
            /\ Head(effs).file = f /\ Head(effs).ok
         THEN <<Head(effs).stmt>> \o StatementsOf(Tail(effs), op, f)
         ELSE StatementsOf(Tail(effs), op, f)

\* C5: when execute_query has returned, its result is a boolean and nothing
\* propagated; it is True exactly when the connection was opened, every
\* statement of the file was executed without error and the commit returned,
\* and False exactly when a call of it raised; a connection that fails is
\* reported by the same record as a statement that fails.
C5_ExecuteQueryBoolean ==
    pc = "returned" =>
      LET mine == { p \in FilePos(sql_file) : effects[p].op \in ExecuteOps }
          ok(op) == \E p \in mine : effects[p].op = op /\ effects[p].ok
          raised == \E p \in mine : ~effects[p].ok
      IN  /\ success \in {PyTrue, PyFalse}
          /\ ~unhandled
          /\ success = PyTrue <=>
                /\ ok("connect")
                /\ StatementsOf(effects, "execute", sql_file) = SplitStatements(query)
                /\ \A p \in mine : effects[p].ok
                /\ ok("commit")
          /\ success = PyFalse <=> raised
          /\ success = PyFalse =>
                effects[Len(effects)] =
                    LogRecord("ERROR", "Error executing query", Basename(sql_file), 0)

\* C5 witness: execute_query returned False because the connection failed.
C5_Witness ==
    /\ pc = "returned"
    /\ success = PyFalse
    /\ \E p \in FailPos : effects[p].op = "connect" /\ effects[p].file = sql_file

\* The files whose read returned, each with the text read.
FilesRead == { p \in OpPos("read") : effects[p].ok }

LoggedAs(p, msg) ==
    \E q \in (p + 1)..Len(effects) :
        /\ effects[q].level = "ERROR" /\ effects[q].op = msg
        /\ \A m \in (p + 1)..(q - 1) : effects[m].op \in {"cursor.close", "close"}

\* C7 as stated: every error is recovered and logged, and nothing leaves
\* run_all_queries uncaught.
C7_Original ==
    /\ ~unhandled
    /\ \A p \in CallPos :
          ~effects[p].ok =>
             \/ LoggedAs(p, "Error executing query")
             \/ LoggedAs(p, "Error reading file")

\* C7 amended: every error raised while a file is read or executed is
\* recovered and logged, and leads to exit status 1 only: a call of
\* execute_query that raises gives its error record and the result False, a
\* read that raises gives two error records and the exit; only an error of
\* the directory listing leaves run_all_queries uncaught, with no log record.
C7_ErrorsRecoveredButListing ==
    /\ unhandled <=> ListingFailed
    /\ ListingFailed =>
          /\ pc = "exited" /\ exitStatus = 1
          /\ \A p \in 1..Len(effects) : effects[p].level = "call"
    /\ \A p \in FailPos :
          /\ effects[p].op \in ExecuteOps =>
                /\ LoggedAs(p, "Error executing query")
                /\ \/ pc = "returned" /\ success = PyFalse
                   \/ pc = "exited" /\ exitStatus = 1
          /\ effects[p].op = "read" =>
                /\ effects[p + 1] = LogRecord("ERROR", "Error reading file", effects[p].file, 0)
                /\ effects[p + 2] = LogRecord("ERROR", "Fatal error processing", effects[p].file, 0)
                /\ pc = "exited" /\ exitStatus = 1

\* C7 witness: the read of the second file raised, was logged twice, and the
\* process exited with status 1 with nothing uncaught.
C7_Witness ==
    /\ pc = "exited"
    /\ exitStatus = 1
    /\ ~unhandled
    /\ Len(sql_files) >= 2
    /\ \E p \in FailPos : effects[p].op = "read" /\ effects[p].file = sql_files[2]

\* The statement, lowercased, begins with 'select' after its leading
\* whitespace.
BeginsWithSelect(stmt) ==
    \E j \in 1..Len(stmt) :
        /\ \A m \in 1..(j - 1) : IsSpace(stmt[m])
        /\ j + 5 <= Len(stmt)
        /\ \A m \in 0..5 : LowerChar(stmt[j + m]) = SelectKeyword[m + 1]

\* C8: an executed statement that begins with 'select' is followed at once by
\* the fetch of its rows and, when the fetch returns n rows, by the n row
\* records in order, before any other call; one that does not is followed by
\* no fetch and no row record; and fetches and row records occur nowhere else.
C8_SelectRowsLoggedFirst ==
    /\ \A p \in OpPos("execute") :
          (effects[p].ok /\ p < Len(effects)) =>
             IF BeginsWithSelect(effects[p].stmt)
             THEN /\ effects[p + 1].op = "fetchall"
                  /\ effects[p + 1].file = effects[p].file
                  /\ effects[p + 1].stmt = effects[p].stmt
                  /\ effects[p + 1].ok =>
                        /\ Len(effects) >= p + 1 + effects[p + 1].row
                        /\ \A j \in 1..effects[p + 1].row :
                              effects[p + 1 + j] =
                                 LogRecord("INFO", "Result", Basename(effects[p].file), j)
             ELSE effects[p + 1].op \notin {"fetchall", "Result"}
    /\ \A p \in OpPos("execute") :
          (effects[p].ok /\ p = Len(effects)) =>
             (pc = "fetch" <=> BeginsWithSelect(effects[p].stmt))
    /\ \A q \in 1..Len(effects) :
          /\ effects[q].op = "fetchall" =>
                q > 1 /\ effects[q - 1].op = "execute" /\ effects[q - 1].ok
          /\ effects[q].op = "Result" =>
                /\ q > effects[q].row
                /\ effects[q - effects[q].row].op = "fetchall"
                /\ effects[q - effects[q].row].row >= effects[q].row

\* C8 witness: 'Select 1' returned two rows, both were logged, and then the
\* next statement of the file was executed.
C8_Witness ==
    \E p \in OpPos("execute") :
        /\ effects[p].stmt = <<"S", "e", "l", "e", "c", "t", " ", "1">>
        /\ Len(effects) >= p + 4
        /\ effects[p + 1].op = "fetchall" /\ effects[p + 1].row = 2
        /\ effects[p + 2].op = "Result" /\ effects[p + 3].op = "Result"
        /\ effects[p + 4].op = "execute" /\ effects[p + 4].stmt = <<"x">>

====
